---- MODULE Spec2Model ----
(***************************************************************************)
(* Model of azure/table_azure_cosmosdb_mongo_collection.go: the table      *)
(* azure_cosmosdb_mongo_collection, its list hydrate                       *)
(* listCosmosDBMongoCollections (run once per parent account, possibly     *)
(* concurrently) and its get hydrate getCosmosDBMongoCollection.           *)
(*                                                                         *)
(* A Go string is a sequence of characters (one-character TLA+ strings);   *)
(* a *string is a sequence of length 0 (nil) or 1 (a pointer to a string). *)
(* An error is a string, "nil" for no error.                               *)
(***************************************************************************)
EXTENDS Integers, Sequences, FiniteSets, TLC

\* Largest number of items one remote list call returns.
MaxItems == 2

----------------------------------------------------------------------------
(* Strings *)

Nil == <<>>
Ptr(s) == <<s>>
Deref(p) == p[1]

\* A character that UTF-8 encodes in two bytes (e with acute), and its capital.
TwoByteChars == {"U+00E9", "U+00C9"}

\* Go's len(string): the number of bytes, not of characters.
RECURSIVE len(_)
len(s) == IF s = <<>> THEN 0
          ELSE (IF Head(s) \in TwoByteChars THEN 2 ELSE 1) + len(Tail(s))

\* strings.ToLower on the alphabet of the model.
LowerChar(c) == CASE c = "G" -> "g"
                  [] c = "E" -> "e"
                  [] c = "U+00C9" -> "U+00E9"
                  [] OTHER -> c

\* The transform toLower: nil stays nil, a string is lower-cased.
toLower(p) == IF p = Nil THEN Nil
              ELSE Ptr([k \in 1..Len(Deref(p)) |-> LowerChar(Deref(p)[k])])

\* strings.Split(s, "/"): the substrings between the separators, one more
\* than there are separators.
RECURSIVE SplitAcc(_, _, _)
SplitAcc(s, cur, acc) ==
    IF s = <<>> THEN Append(acc, cur)
    ELSE IF Head(s) = "/" THEN SplitAcc(Tail(s), <<>>, Append(acc, cur))
    ELSE SplitAcc(Tail(s), Append(cur, Head(s)), acc)

Split(s) == SplitAcc(s, <<>>, <<>>)

----------------------------------------------------------------------------
(* Data *)

\* documentdb.MongoDBCollectionGetResults as far as the table reads it: the
\* pointers ID, Name and Location. The remaining columns (type, tags,
\* throughput, ...) are plain field paths into the same record.
RecUpper == [ID |-> Ptr(<<"/", "s", "/", "x", "/", "r", "/", "G", "/", "p">>),
             Name |-> Ptr(<<"p">>), Location |-> Ptr(<<"E", "u">>)]
RecLower == [ID |-> Ptr(<<"/", "s", "/", "x", "/", "r", "/", "h", "/", "q">>),
             Name |-> Ptr(<<"q">>), Location |-> Ptr(<<"u", "U+00C9">>)]
RecShortID == [ID |-> Ptr(<<"a", "/", "b">>),
               Name |-> Ptr(<<"b">>), Location |-> Ptr(<<"E">>)]
RecNoID == [ID |-> Nil, Name |-> Nil, Location |-> Nil]

Records == {RecUpper, RecLower, RecShortID, RecNoID}

RECURSIVE SeqsUpTo(_, _)
SeqsUpTo(T, n) == IF n = 0 THEN {<<>>}
                  ELSE LET shorter == SeqsUpTo(T, n - 1)
                       IN shorter \cup {Append(q, x) : q \in shorter, x \in T}

\* What ListMongoDBCollections can answer in result.Value: nil, or a pointer
\* to a slice of records.
ListValues == {Nil} \cup {Ptr(q) : q \in SeqsUpTo(Records, MaxItems)}

\* Errors of GetNewSession and of the remote calls.
SessionErrors == {"AuthFailed"}
RemoteErrors == {"ResourceNotFound", "NotFound", "Forbidden"}

\* The parent hydrate listCosmosDBAccounts hands one databaseAccountInfo to
\* each invocation of the list hydrate.
Invocations == {"p1", "p2"}
ParentItems == [p1 |-> [Name |-> Ptr(<<"a", "c", "1">>), ResourceGroup |-> Ptr(<<"g">>)],
                p2 |-> [Name |-> Ptr(<<"a", "c", "2">>), ResourceGroup |-> Ptr(<<"h">>)]]

\* Values of the equality quals of a query.
AccountNames == {<<>>, <<"a">>, <<"a", "b">>, <<"a", "b", "c">>,
                 <<"U+00E9", "U+00E9">>, <<"U+00E9", "a">>}
ResourceGroups == {<<>>, <<"G">>, <<"U+00E9">>}
DatabaseNames == {<<>>, <<"d">>}
CollectionNames == {<<"p">>}

----------------------------------------------------------------------------
(* State *)

VARIABLES
    fetch,        \* "list" or "get": which hydrate the host runs for the query
    EqualsQuals,  \* d.EqualsQuals, by column name
    stopSignal,   \* TRUE when d.RowsRemaining(ctx) is 0
    pc,           \* position of each list invocation
    session,      \* list: number of GetNewSession calls of each invocation
    listCalls,    \* list: number of ListMongoDBCollections calls
    err,          \* list: the local variable err
    result,       \* list: result.Value
    idx,          \* list: number of items the range loop has taken
    emitted,      \* list: items passed to d.StreamLeafListItem, in order
    observed,     \* list: what each RowsRemaining check saw
    aborted,      \* list: the run-time panic that ended the invocation
    ret,          \* list: the returned (interface{}, error)
    gpc,          \* position of the get hydrate
    gsession,     \* get: number of GetNewSession calls
    getCalls,     \* get: number of GetMongoDBCollection calls
    gerr,         \* get: the local variable err
    gret,         \* get: the returned (interface{}, error)
    caller        \* get: what the host hands to the caller

vars == <<fetch, EqualsQuals, stopSignal, pc, session, listCalls, err, result,
          idx, emitted, observed, aborted, ret, gpc, gsession, getCalls, gerr,
          gret, caller>>

listVars == <<pc, session, listCalls, err, result, idx, emitted, observed,
              aborted, ret>>
getVars == <<gpc, gsession, getCalls, gerr, gret, caller>>

NoReturn == [returned |-> FALSE, item |-> Nil, err |-> "nil"]
Return(item, e) == [returned |-> TRUE, item |-> item, err |-> e]

----------------------------------------------------------------------------
(* The table: columns and their transforms *)

mongoCollectionInfo(MongoCollection, Account, Database, Name, ResourceGroup, Location) ==
    [MongoCollection |-> MongoCollection, Account |-> Account,
     Database |-> Database, Name |-> Name, ResourceGroup |-> ResourceGroup,
     Location |-> Location]

Column_region_raw(info) == info.Location
Column_region(info) == toLower(info.Location)

Column_resource_group(info) == toLower(info.ResourceGroup)

\* The columns of the row the host derives from one streamed item.
Columns(info) ==
    [name |-> info.Name,
     account_name |-> info.Account,
     database_name |-> info.Database,
     id |-> info.MongoCollection.ID,
     title |-> info.Name,
     region |-> Column_region(info),
     resource_group |-> Column_resource_group(info)]

\* The error codes the Get configuration hands to isNotFoundError.
NotFoundCodes_short == {"ResourceNotFound"}
NotFoundCodes == {"ResourceNotFound", "NotFound"}

\* isNotFoundError(codes): the predicate the host asks whether to ignore an
\* error of the get hydrate.
isNotFoundError(codes, e) == e \in codes

ShouldIgnoreErrorFunc(e) == isNotFoundError(NotFoundCodes, e)

----------------------------------------------------------------------------
(* listCosmosDBMongoCollections *)

GetStringValue(column) == EqualsQuals[column]

account_first(i) == ParentItems["p1"]
account(i) == ParentItems[i]

EmptyDatabaseName_never(databaseName) == FALSE
EmptyDatabaseName(databaseName) == databaseName = <<>>

\* &strings.Split(string(*mongoCollection.ID), "/")[4] can be evaluated: the
\* ID is not nil and has a segment at 0-indexed position 4.
Segments(ID) == Split(Deref(ID))
PanicOf(mongoCollection) ==
    IF mongoCollection.ID = Nil THEN "nil pointer dereference"
    ELSE IF Len(Segments(mongoCollection.ID)) < 5 THEN "index out of range"
    ELSE "none"

resourceGroupOf_parent(i, mongoCollection) == account(i).ResourceGroup
resourceGroupOf(i, mongoCollection) == Ptr(Segments(mongoCollection.ID)[5])

StreamedItem(i, mongoCollection) ==
    mongoCollectionInfo(mongoCollection, account(i).Name,
                        Ptr(GetStringValue("database_name")),
                        mongoCollection.Name,
                        resourceGroupOf(i, mongoCollection),
                        mongoCollection.Location)

RowsRemainingIsZero == stopSignal

ErrorReturn_swallowed(e) == Return(Nil, "nil")
ErrorReturn(e) == Return(Nil, e)

\* Lines 155-160: read the parent item and the qual; an empty database_name
\* returns at once.
ListStart(i) ==
    /\ fetch = "list"
    /\ pc[i] = "start"
    /\ IF EmptyDatabaseName(GetStringValue("database_name"))
       THEN /\ pc' = [pc EXCEPT ![i] = "done"]
            /\ ret' = [ret EXCEPT ![i] = Return(Nil, "nil")]
       ELSE /\ pc' = [pc EXCEPT ![i] = "session"]
            /\ ret' = ret
    /\ UNCHANGED <<fetch, EqualsQuals, stopSignal, session, listCalls, err,
                   result, idx, emitted, observed, aborted>>
    /\ UNCHANGED getVars

\* Lines 162-169: GetNewSession, and the client built from it.
ListSession(i) ==
    /\ fetch = "list"
    /\ pc[i] = "session"
    /\ session' = [session EXCEPT ![i] = @ + 1]
    /\ \E e \in {"nil"} \cup SessionErrors :
          /\ err' = [err EXCEPT ![i] = e]
          /\ IF e # "nil"
             THEN /\ pc' = [pc EXCEPT ![i] = "done"]
                  /\ ret' = [ret EXCEPT ![i] = ErrorReturn(e)]
             ELSE /\ pc' = [pc EXCEPT ![i] = "list"]
                  /\ ret' = ret
    /\ UNCHANGED <<fetch, EqualsQuals, stopSignal, listCalls, result, idx,
                   emitted, observed, aborted>>
    /\ UNCHANGED getVars

\* Lines 171-174: the one remote list call.
ListCall(i) ==
    /\ fetch = "list"
    /\ pc[i] = "list"
    /\ listCalls' = [listCalls EXCEPT ![i] = @ + 1]
    /\ \/ \E e \in RemoteErrors :
             /\ err' = [err EXCEPT ![i] = e]
             /\ pc' = [pc EXCEPT ![i] = "done"]
             /\ ret' = [ret EXCEPT ![i] = ErrorReturn(e)]
             /\ result' = result
       \/ \E v \in ListValues :
             /\ err' = [err EXCEPT ![i] = "nil"]
             /\ result' = [result EXCEPT ![i] = v]
             /\ pc' = [pc EXCEPT ![i] = "loop"]
             /\ ret' = ret
    /\ UNCHANGED <<fetch, EqualsQuals, stopSignal, session, idx, emitted,
                   observed, aborted>>
    /\ UNCHANGED getVars

\* Line 176 with result.Value nil: *result.Value panics.
RangeNilValue(i) ==
    /\ fetch = "list"
    /\ pc[i] = "loop"
    /\ result[i] = Nil
    /\ pc' = [pc EXCEPT ![i] = "panic"]
    /\ aborted' = [aborted EXCEPT ![i] = "nil Value"]
    /\ UNCHANGED <<fetch, EqualsQuals, stopSignal, session, listCalls, err,
                   result, idx, emitted, observed, ret>>
    /\ UNCHANGED getVars

\* Lines 176-178: take the next item, derive its resource group, stream it.
StreamItem(i) ==
    /\ fetch = "list"
    /\ pc[i] = "loop"
    /\ result[i] # Nil
    /\ idx[i] < Len(Deref(result[i]))
    /\ idx' = [idx EXCEPT ![i] = @ + 1]
    /\ LET mongoCollection == Deref(result[i])[idx[i] + 1]
       IN IF PanicOf(mongoCollection) # "none"
          THEN /\ pc' = [pc EXCEPT ![i] = "panic"]
               /\ aborted' = [aborted EXCEPT ![i] = PanicOf(mongoCollection)]
               /\ emitted' = emitted
          ELSE /\ pc' = [pc EXCEPT ![i] = "check"]
               /\ aborted' = aborted
               /\ emitted' = [emitted EXCEPT
                                ![i] = Append(@, StreamedItem(i, mongoCollection))]
    /\ UNCHANGED <<fetch, EqualsQuals, stopSignal, session, listCalls, err,
                   result, observed, ret>>
    /\ UNCHANGED getVars

\* Lines 182-184: after the row, ask the host whether to stop.
CheckRowsRemaining(i) ==
    /\ fetch = "list"
    /\ pc[i] = "check"
    /\ observed' = [observed EXCEPT ![i] = Append(@, RowsRemainingIsZero)]
    /\ IF RowsRemainingIsZero
       THEN /\ pc' = [pc EXCEPT ![i] = "done"]
            /\ ret' = [ret EXCEPT ![i] = Return(Nil, "nil")]
       ELSE /\ pc' = [pc EXCEPT ![i] = "loop"]
            /\ ret' = ret
    /\ UNCHANGED <<fetch, EqualsQuals, stopSignal, session, listCalls, err,
                   result, idx, emitted, aborted>>
    /\ UNCHANGED getVars

\* Line 187: the range is exhausted; return nil and err.
LoopExit(i) ==
    /\ fetch = "list"
    /\ pc[i] = "loop"
    /\ result[i] # Nil
    /\ idx[i] = Len(Deref(result[i]))
    /\ pc' = [pc EXCEPT ![i] = "done"]
    /\ ret' = [ret EXCEPT ![i] = Return(Nil, err[i])]
    /\ UNCHANGED <<fetch, EqualsQuals, stopSignal, session, listCalls, err,
                   result, idx, emitted, observed, aborted>>
    /\ UNCHANGED getVars

\* The host reaches the query's limit or cancels the context: from now on
\* d.RowsRemaining(ctx) is 0.
HostStop ==
    /\ fetch = "list"
    /\ ~stopSignal
    /\ \E i \in Invocations : pc[i] \notin {"done", "panic"}
    /\ stopSignal' = TRUE
    /\ UNCHANGED <<fetch, EqualsQuals>>
    /\ UNCHANGED listVars
    /\ UNCHANGED getVars

----------------------------------------------------------------------------
(* getCosmosDBMongoCollection *)

\* Line 203: the lookup key the hydrate refuses to send to the remote API.
InvalidLookupKey_two(accountName, resourceGroup) ==
    len(accountName) < 2 \/ len(resourceGroup) < 1
InvalidLookupKey(accountName, resourceGroup) ==
    len(accountName) < 3 \/ len(resourceGroup) < 1

FetchedItem(result_) ==
    mongoCollectionInfo(result_, Ptr(GetStringValue("account_name")),
                        Ptr(GetStringValue("database_name")),
                        result_.Name,
                        Ptr(GetStringValue("resource_group")),
                        result_.Location)

\* Lines 195-205: read the four quals and validate the key.
GetStart ==
    /\ fetch = "get"
    /\ gpc = "start"
    /\ IF InvalidLookupKey(GetStringValue("account_name"),
                           GetStringValue("resource_group"))
       THEN /\ gpc' = "returned"
            /\ gret' = Return(Nil, "nil")
       ELSE /\ gpc' = "session"
            /\ gret' = gret
    /\ UNCHANGED <<fetch, EqualsQuals, stopSignal, gsession, getCalls, gerr,
                   caller>>
    /\ UNCHANGED listVars

\* Lines 207-214: GetNewSession, and the client built from it.
GetSession ==
    /\ fetch = "get"
    /\ gpc = "session"
    /\ gsession' = gsession + 1
    /\ \E e \in {"nil"} \cup SessionErrors :
          /\ gerr' = e
          /\ IF e # "nil"
             THEN /\ gpc' = "returned"
                  /\ gret' = ErrorReturn(e)
             ELSE /\ gpc' = "get"
                  /\ gret' = gret
    /\ UNCHANGED <<fetch, EqualsQuals, stopSignal, getCalls, caller>>
    /\ UNCHANGED listVars

\* Lines 216-221: the one remote get call, and the item built from its answer.
GetCall ==
    /\ fetch = "get"
    /\ gpc = "get"
    /\ getCalls' = getCalls + 1
    /\ gpc' = "returned"
    /\ \/ \E e \in RemoteErrors :
             /\ gerr' = e
             /\ gret' = ErrorReturn(e)
       \/ \E r \in Records :
             /\ gerr' = "nil"
             /\ gret' = Return(Ptr(FetchedItem(r)), "nil")
    /\ UNCHANGED <<fetch, EqualsQuals, stopSignal, gsession, caller>>
    /\ UNCHANGED listVars

\* Lines 29-35: the host applies the Get configuration to what the hydrate
\* returned: an error ShouldIgnoreErrorFunc accepts counts as no row.
HostGetReturn ==
    /\ fetch = "get"
    /\ gpc = "returned"
    /\ gpc' = "done"
    /\ caller' = IF gret.err # "nil"
                 THEN IF ShouldIgnoreErrorFunc(gret.err)
                      THEN [row |-> Nil, err |-> "nil"]
                      ELSE [row |-> Nil, err |-> gret.err]
                 ELSE IF gret.item = Nil
                      THEN [row |-> Nil, err |-> "nil"]
                      ELSE [row |-> Ptr(Columns(Deref(gret.item))), err |-> "nil"]
    /\ UNCHANGED <<fetch, EqualsQuals, stopSignal, gsession, getCalls, gerr,
                   gret>>
    /\ UNCHANGED listVars

----------------------------------------------------------------------------
(* Specification *)

NoQuals == [account_name |-> <<>>, name |-> <<>>, resource_group |-> <<>>,
            database_name |-> <<>>]

\* A list query qualifies database_name (possibly with the empty string); a
\* get query qualifies all four key columns.
Init ==
    /\ fetch \in {"list", "get"}
    /\ EqualsQuals \in
         IF fetch = "list"
         THEN {[NoQuals EXCEPT !.database_name = db] : db \in DatabaseNames}
         ELSE [account_name : AccountNames, name : CollectionNames,
               resource_group : ResourceGroups, database_name : DatabaseNames]
    /\ stopSignal = FALSE
    /\ pc = [i \in Invocations |-> "start"]
    /\ session = [i \in Invocations |-> 0]
    /\ listCalls = [i \in Invocations |-> 0]
    /\ err = [i \in Invocations |-> "nil"]
    /\ result = [i \in Invocations |-> Nil]
    /\ idx = [i \in Invocations |-> 0]
    /\ emitted = [i \in Invocations |-> <<>>]
    /\ observed = [i \in Invocations |-> <<>>]
    /\ aborted = [i \in Invocations |-> "none"]
    /\ ret = [i \in Invocations |-> NoReturn]
    /\ gpc = "start"
    /\ gsession = 0
    /\ getCalls = 0
    /\ gerr = "nil"
    /\ gret = NoReturn
    /\ caller = [row |-> Nil, err |-> "nil"]

Next ==
    \/ \E i \in Invocations : ListStart(i)
    \/ \E i \in Invocations : ListSession(i)
    \/ \E i \in Invocations : ListCall(i)
    \/ \E i \in Invocations : RangeNilValue(i)
    \/ \E i \in Invocations : StreamItem(i)
    \/ \E i \in Invocations : CheckRowsRemaining(i)
    \/ \E i \in Invocations : LoopExit(i)
    \/ HostStop
    \/ GetStart
    \/ GetSession
    \/ GetCall
    \/ HostGetReturn

Spec == Init /\ [][Next]_vars

----------------------------------------------------------------------------
(* Properties *)

Terminated(i) == pc[i] \in {"done", "panic"}
Answered(i) == result[i] # Nil
Items(i) == Deref(result[i])
NoStopSeen(i) == \A k \in 1..Len(observed[i]) : ~observed[i][k]
OwnSegment(i, k) == Split(Deref(Items(i)[k].ID))[5]

UpperChars == {"G", "E", "U+00C9"}

\* r is the lower-cased form of the optional string s.
IsLowerOf(r, s) ==
    IF s = Nil THEN r = Nil
    ELSE /\ r # Nil
         /\ Len(Deref(r)) = Len(Deref(s))
         /\ \A k \in 1..Len(Deref(s)) :
               /\ Deref(r)[k] \notin UpperChars
               /\ Deref(r)[k] = LowerChar(Deref(s)[k])

\* C1: once an invocation whose list call returned N items has ended, it has
\* emitted exactly N rows and returned no error if no check saw the stop
\* signal, and exactly k rows, with no later item taken and no error, if the
\* check after the k-th row saw it.
C1_RowCount ==
    \A i \in Invocations :
        (Terminated(i) /\ Answered(i)) =>
            /\ ret[i] = Return(Nil, "nil")
            /\ IF NoStopSeen(i)
               THEN Len(emitted[i]) = Len(Items(i))
               ELSE \E k \in 1..Len(Items(i)) :
                       /\ Len(observed[i]) = k
                       /\ observed[i][k]
                       /\ Len(emitted[i]) = k
                       /\ idx[i] = k

\* C2: with an empty database_name qual no invocation opens a session, issues
\* the list call or emits a row, and each returns without an error.
C2_EmptyFilter ==
    (fetch = "list" /\ EqualsQuals["database_name"] = <<>>) =>
        \A i \in Invocations :
            /\ session[i] = 0
            /\ listCalls[i] = 0
            /\ emitted[i] = <<>>
            /\ pc[i] \in {"start", "done"}
            /\ pc[i] = "done" => ret[i] = Return(Nil, "nil")

C2_Witness ==
    /\ fetch = "list"
    /\ EqualsQuals["database_name"] = <<>>
    /\ \A i \in Invocations : pc[i] = "done"

\* C3 as stated: an account name of fewer than 3 characters, or an empty
\* resource group, never opens a session or issues the get call, and the
\* hydrate returns no result and no error.
C3_Characters ==
    (/\ fetch = "get"
     /\ \/ Len(EqualsQuals["account_name"]) < 3
        \/ EqualsQuals["resource_group"] = <<>>) =>
        /\ gsession = 0
        /\ getCalls = 0
        /\ gpc \in {"returned", "done"} => gret = Return(Nil, "nil")

\* C3 amended: the same, for an account name of fewer than 3 bytes.
C3_Bytes ==
    (/\ fetch = "get"
     /\ \/ len(EqualsQuals["account_name"]) < 3
        \/ EqualsQuals["resource_group"] = <<>>) =>
        /\ gsession = 0
        /\ getCalls = 0
        /\ gpc \in {"start", "returned", "done"}
        /\ gpc \in {"returned", "done"} => gret = Return(Nil, "nil")
        /\ gpc = "done" => caller = [row |-> Nil, err |-> "nil"]

C3_Witness ==
    /\ fetch = "get"
    /\ Len(EqualsQuals["account_name"]) = 2
    /\ EqualsQuals["resource_group"] # <<>>
    /\ gpc = "done"
    /\ gsession = 0

\* C4: a failed session means no list call, no row and that error returned; a
\* failed list call means no row and that error returned; an invocation that
\* returned an error has emitted no row.
C4_ErrorNoRows ==
    \A i \in Invocations :
        /\ err[i] \in SessionErrors =>
              /\ listCalls[i] = 0
              /\ emitted[i] = <<>>
              /\ ret[i] = Return(Nil, err[i])
        /\ err[i] \in RemoteErrors =>
              /\ listCalls[i] = 1
              /\ emitted[i] = <<>>
              /\ ret[i] = Return(Nil, err[i])
        /\ (ret[i].returned /\ ret[i].err # "nil") => emitted[i] = <<>>

C4_Witness ==
    /\ err["p1"] \in SessionErrors
    /\ err["p2"] \in RemoteErrors
    /\ ret["p1"].returned
    /\ ret["p2"].returned

\* C5: a get whose key passed validation and whose session or remote call
\* failed returns no result and that error; the caller sees no row and no
\* error exactly for ResourceNotFound and NotFound, and the error otherwise.
C5_GetErrors ==
    (fetch = "get" /\ gerr # "nil") =>
        /\ len(EqualsQuals["account_name"]) >= 3
        /\ EqualsQuals["resource_group"] # <<>>
        /\ gret = Return(Nil, gerr)
        /\ gpc \in {"returned", "done"}
        /\ gpc = "done" =>
              /\ caller.row = Nil
              /\ caller.err = IF gerr \in {"ResourceNotFound", "NotFound"}
                              THEN "nil" ELSE gerr

C5_Witness ==
    /\ fetch = "get"
    /\ gpc = "done"
    /\ gerr = "NotFound"
    /\ caller = [row |-> Nil, err |-> "nil"]

\* C6 as stated: the resource_group of the row of every emitted item equals
\* the 5th slash-delimited segment of the item's own ID.
C6_SegmentVerbatim ==
    \A i \in Invocations :
        \A k \in 1..Len(emitted[i]) :
            Columns(emitted[i][k]).resource_group = Ptr(OwnSegment(i, k))

\* C6 amended: the streamed item carries the 5th segment of its own ID, and
\* the resource_group column of its row is that segment lower-cased.
C6_SegmentLowered ==
    \A i \in Invocations :
        \A k \in 1..Len(emitted[i]) :
            /\ emitted[i][k].ResourceGroup = Ptr(OwnSegment(i, k))
            /\ IsLowerOf(Columns(emitted[i][k]).resource_group,
                         Ptr(OwnSegment(i, k)))

C6_Witness ==
    \E k \in 1..Len(emitted["p2"]) :
        /\ Items("p2")[k] = RecUpper
        /\ Columns(emitted["p2"][k]).resource_group = Ptr(<<"g">>)
        /\ toLower(ParentItems["p2"].ResourceGroup) # Ptr(<<"g">>)

\* C7: every item the loop has taken has its row (each column a value or
\* null), and no item aborts the invocation.
C7_EveryRecordARow ==
    \A i \in Invocations :
        /\ aborted[i] \notin {"nil pointer dereference", "index out of range"}
        /\ Answered(i) =>
              \A k \in 1..idx[i] :
                  /\ k <= Len(emitted[i])
                  /\ emitted[i][k].MongoCollection = Items(i)[k]

\* What one invocation emits when it runs by itself on its parent item, the
\* database name, the items of its list call and the answers of its checks.
RECURSIVE RunAlone(_, _, _, _, _)
RunAlone(parent, db, items, checks, k) ==
    IF k > Len(items) THEN <<>>
    ELSE IF items[k].ID = Nil THEN <<>>
    ELSE IF Len(Split(Deref(items[k].ID))) < 5 THEN <<>>
    ELSE <<[MongoCollection |-> items[k], Account |-> parent.Name,
            Database |-> Ptr(db), Name |-> items[k].Name,
            ResourceGroup |-> Ptr(Split(Deref(items[k].ID))[5]),
            Location |-> items[k].Location]>>
         \o (IF checks[k] THEN <<>>
             ELSE RunAlone(parent, db, items, checks, k + 1))

\* C8: under every interleaving, each row carries the account and database
\* name of the invocation that emitted it, and an invocation that has ended
\* has emitted exactly what it emits when run alone.
C8_Isolation ==
    \A i \in Invocations :
        /\ \A k \in 1..Len(emitted[i]) :
              /\ emitted[i][k].Account = ParentItems[i].Name
              /\ emitted[i][k].Database = Ptr(EqualsQuals["database_name"])
        /\ (Terminated(i) /\ Answered(i)) =>
              emitted[i] = RunAlone(ParentItems[i], EqualsQuals["database_name"],
                                    Items(i), observed[i], 1)

C8_Witness ==
    /\ pc["p1"] = "check"
    /\ pc["p2"] = "check"
    /\ Len(emitted["p1"]) = 2
    /\ Len(emitted["p2"]) = 1

\* C9: the region column of every row, listed or fetched, is the lower-cased
\* location of the record the row comes from.
C9_RegionLowered ==
    /\ \A i \in Invocations :
          \A k \in 1..Len(emitted[i]) :
              IsLowerOf(Columns(emitted[i][k]).region, Items(i)[k].Location)
    /\ (fetch = "get" /\ gpc = "done" /\ caller.row # Nil) =>
          IsLowerOf(Deref(caller.row).region,
                    Deref(gret.item).MongoCollection.Location)

C9_Witness ==
    \E k \in 1..Len(emitted["p1"]) :
        /\ Items("p1")[k] = RecLower
        /\ Columns(emitted["p1"][k]).region = Ptr(<<"u", "U+00E9">>)

\* C10: the rows emitted so far are, in order and one per item, a prefix of
\* the items of the list call; and an invocation that has ended after its
\* list call returned at least one item has emitted the first row.
C10_PrefixAndFirstRow ==
    \A i \in Invocations :
        Answered(i) =>
            /\ Len(emitted[i]) <= Len(Items(i))
            /\ \A k \in 1..Len(emitted[i]) :
                  emitted[i][k].MongoCollection = Items(i)[k]
            /\ (Terminated(i) /\ Len(Items(i)) >= 1) => Len(emitted[i]) >= 1

====
